---- MODULE Spec2Model ----
(***************************************************************************)
(* Multi-collection weighted retrieval and context assembly of the         *)
(* "Assistente Virtual da Camara dos Deputados".                           *)
(*                                                                         *)
(* Two implementations of search_all_indices / format_context exist:       *)
(*   "app"   : src/app.py                                                  *)
(*   "pages" : src/app/pages/01_Assistente_Virtual.py                      *)
(* The variable `variant` selects which one a behaviour runs.              *)
(*                                                                         *)
(* Numbers.  Priorities are halves (0.5, 1, 1.5, 2, 3): a priority p is    *)
(* stored doubled (P2 = 2p).  Raw distances are the squared L2 distances   *)
(* of one-dimensional integer vectors, hence integers.  An adjusted score  *)
(* s (dist / p in "app", dist * p in "pages") is stored as ScoreScale * s, *)
(* which is an integer for every priority of both maps; the order and the  *)
(* equality of scores are those of the floating point values, because      *)
(* IEEE division and multiplication are correctly rounded and monotonic.   *)
(***************************************************************************)
EXTENDS Integers, Sequences, FiniteSets, Bags, TLC

\* ---------------------------------------------------------------- bounds
MaxCoord == 2          \* vector coordinates range over 0..MaxCoord
MaxCollections == 2    \* at most this many index files in data/embeddings
MaxFaulty == 1         \* at most this many of them corrupt, empty or misaligned
BigDocs == 25          \* size of the large collection of the fixtures
MaxResults == 3        \* length of the lists format_context is applied to
MaxEvidence == 2       \* results a sub-question's search returns
MaxScore2 == 3         \* twice the largest best score of an evidence list
MaxTexts == 4          \* texts indexed by the assistant's EmbeddingManager
MaxRows == 2           \* rows of each data frame of the RAG manager
MaxBuilds == 2         \* RAGManager constructions against one index file

Coords == 0 .. MaxCoord

\* ------------------------------------------------------- names and order
Names == {"deputados", "despesas", "insights_despesas",
          "insights_distribuicao", "proposicoes", "sumarizacoes", "votacoes"}

\* Python's string order on the collection names, used by sorted(indices).
NameOrder == <<"deputados", "despesas", "insights_despesas",
               "insights_distribuicao", "proposicoes", "sumarizacoes",
               "votacoes">>

Variants == {"app", "pages"}

\* ------------------------------------------------------------ priorities
\* priority_map of src/app.py, doubled.
priority_map_app ==
    [n \in {"insights_distribuicao", "insights_despesas", "sumarizacoes",
            "deputados", "despesas", "proposicoes"} |->
        CASE n = "insights_distribuicao" -> 1
          [] n = "insights_despesas"     -> 2
          [] n = "sumarizacoes"          -> 3
          [] OTHER                       -> 4]

\* priority_map of the pages variant, doubled.
priority_map_pages ==
    [n \in {"sumarizacoes", "proposicoes", "insights_distribuicao",
            "insights_despesas", "deputados", "despesas"} |->
        CASE n = "sumarizacoes" -> 1
          [] n = "proposicoes"  -> 2
          [] n \in {"insights_distribuicao", "insights_despesas"} -> 4
          [] OTHER -> 6]

\* The default of priority_map.get(index_name, 3), doubled.
DefaultPriority2 == 2 * 3

\* index_priority = priority_map.get(index_name, 3), doubled.
IndexPriority2(v, name) ==
    LET m == IF v = "app" THEN priority_map_app ELSE priority_map_pages
    IN  IF name \in DOMAIN m THEN m[name] ELSE DefaultPriority2

\* The literals 0.5 and 1.5 are Python floats, 1, 2 and 3 are ints.
IsFloatPriority(p2) == p2 % 2 = 1

\* Result caps: all_results[:min(len(all_results), 30)] and [..., 40)].
overall_result_cap(v) == IF v = "app" THEN 30 ELSE 40

\* ------------------------------------------------ persisted collections
\* The files of one collection in data/embeddings: {name}_index.faiss holds
\* `vecs` (slot i of the index is vecs[i+1]), {name}_data.pkl holds a list of
\* `docs` texts; `loadable` is FALSE when reading either file raises.
\* NoIndex stands for a collection without an index file.
NoIndex == [docs |-> 0, vecs |-> << >>, loadable |-> FALSE, present |-> FALSE]

Pattern(n) == [i \in 1 .. n |-> (i - 1) % (MaxCoord + 1)]

Stored(nd, nv, ok) ==
    [docs |-> nd, vecs |-> Pattern(nv), loadable |-> ok, present |-> TRUE]

\* A sound collection loads and holds one vector per document.
SoundShapes == { Stored(2, 2, TRUE),              \* small
                 Stored(BigDocs, BigDocs, TRUE) } \* large

FaultyShapes == { Stored(2, 2, FALSE),   \* corrupt files
                  Stored(0, 0, TRUE),    \* empty collection
                  Stored(2, 3, TRUE),    \* more vectors than documents
                  Stored(3, 2, TRUE) }   \* fewer vectors than documents

\* The states of data/embeddings: up to MaxCollections index files, the
\* sound collections of one size, up to MaxFaulty of them faulty in one way.
FileSystems ==
    UNION { { [n \in Names |-> IF n \in F THEN bad
                               ELSE IF n \in S THEN good ELSE NoIndex] :
                good \in SoundShapes, bad \in FaultyShapes,
                F \in { G \in SUBSET S : Cardinality(G) <= MaxFaulty } } :
            S \in { T \in SUBSET Names : Cardinality(T) <= MaxCollections } }

\* data[idx] of the pickled document list: the text stored at a slot.
Doc(name, slot) == [coll |-> name, slot |-> slot]

\* -------------------------------------------------------------- queries
\* A query is a sequence of words; Lower is str.lower() on the vocabulary.
Queries == { <<"Quais", "partidos">>, <<"Proposição", "saude">> }

Lower(w) == CASE w = "Quais"      -> "quais"
              [] w = "Proposição" -> "proposição"
              [] OTHER            -> w

\* `word in query.lower()`
InLowerQuery(word, q) == \E i \in 1 .. Len(q) : Lower(q[i]) = word

\* The base k: main calls search_all_indices with the default k=10.
BaseKs == {10}

\* ------------------------------------------------- get_available_indices
RECURSIVE SortedNames(_, _)
SortedNames(present, i) ==
    IF i > Len(NameOrder) THEN << >>
    ELSE IF NameOrder[i] \in present
         THEN <<NameOrder[i]>> \o SortedNames(present, i + 1)
         ELSE SortedNames(present, i + 1)

get_available_indices(f) == SortedNames({n \in Names : f[n].present}, 1)

\* glob.glob lists the index files in an order the file system chooses.
Glob(f) ==
    LET present == { n \in Names : f[n].present }
    IN  { l \in [1 .. Cardinality(present) -> present] :
            \A i, j \in 1 .. Cardinality(present) : l[i] = l[j] => i = j }

\* Fault: the names are returned as listed.
Sorted_AsListed(listing) == listing

\* sorted(indices)
Sorted(listing) ==
    SortedNames({ listing[i] : i \in 1 .. Len(listing) }, 1)

\* ------------------------------------------------------ faiss IndexFlatL2
\* Squared L2 distance of one-dimensional vectors.
L2(v, q) == (v - q) * (v - q)

\* Distance reported for a missing neighbour (label -1): larger than every
\* adjusted score of a real neighbour under every priority.
PadDist == 1000 * (MaxCoord * MaxCoord + 1)

\* The slots (1-based) in the order the index reports them: by ascending
\* distance, equally distant slots by ascending label.
RECURSIVE InsertByDist(_, _, _, _, _)
InsertByDist(vecs, q, order, s, i) ==
    IF i > Len(order) THEN Append(order, s)
    ELSE IF L2(vecs[s], q) < L2(vecs[order[i]], q)
         THEN SubSeq(order, 1, i - 1) \o <<s>> \o SubSeq(order, i, Len(order))
         ELSE InsertByDist(vecs, q, order, s, i + 1)

RECURSIVE NearestFrom(_, _, _, _)
NearestFrom(vecs, q, s, order) ==
    IF s > Len(vecs) THEN order
    ELSE NearestFrom(vecs, q, s + 1, InsertByDist(vecs, q, order, s, 1))

Nearest(vecs, q) == NearestFrom(vecs, q, 1, << >>)

\* index.search(query_emb, k) for an int k > 0: k (distance, label) pairs by
\* ascending distance, padded with (PadDist, -1) beyond the stored vectors.
FaissSearch(vecs, q, k) ==
    LET order == Nearest(vecs, q)
    IN  [r \in 1 .. k |->
            IF r <= Len(vecs)
            THEN [dist |-> L2(vecs[order[r]], q), idx |-> order[r] - 1]
            ELSE [dist |-> PadDist, idx |-> -1]]

\* ------------------------------------------------------ neighbour count
\* index_k as a Python number num/den, float or int.
\*   app  : index_k = k * index_priority
\*   pages: index_k = k * (1 + (1/index_priority))
IndexK(v, k, p2) ==
    IF v = "app"
    THEN [float |-> IsFloatPriority(p2), num |-> k * p2, den |-> 2]
    ELSE [float |-> TRUE, num |-> k * (p2 + 2), den |-> p2]

\* The count handed to index.search: index_k in app, min(index_k, len(data))
\* in pages (min returns its first argument unless the second is smaller).
SearchK(v, k, p2, ndocs) ==
    LET ik == IndexK(v, k, p2)
    IN  IF v = "pages" /\ ndocs * ik.den < ik.num
        THEN [float |-> FALSE, num |-> ndocs, den |-> 1]
        ELSE ik

\* index.search raises for a float count (numpy cannot size its output
\* arrays) and for a count that is not positive.
SearchRaises(sk) == sk.float \/ sk.num <= 0

\* --------------------------------------------------------- adjusted score
ScoreScale == 2 * 3

\* Fault: the pages variant divides by the priority as app does.
AdjustedScore_Divide(v, dist, p2) == (2 * ScoreScale * dist) \div p2

\* ScoreScale * adjusted_score:  dist / priority (app), dist * priority (pages)
AdjustedScore(v, dist, p2) ==
    IF v = "app" THEN (2 * ScoreScale * dist) \div p2
                 ELSE (ScoreScale * dist * p2) \div 2

\* ------------------------------------------------- one loop iteration
\* Python list indexing with a label: data[-1] is the last document.
Resolve(idx, ndocs) == IF idx < 0 THEN ndocs + idx ELSE idx

\* data[idx] raises IndexError (only a label below -len(data) passes the
\* guard `idx < len(data)` and is out of range).
HitRaises(h, ndocs) == h.idx < ndocs /\ h.idx < 0 - ndocs

\* The dictionary appended for one hit; dist and idx record the hit it was
\* built from (they are not keys of the program's dictionary).
ResultOf(v, name, p2, h, ndocs) ==
    [text   |-> Doc(name, Resolve(h.idx, ndocs)),
     score  |-> AdjustedScore(v, h.dist, p2),
     source |-> name,
     dist   |-> h.dist,
     idx    |-> h.idx]

\* for dist, idx in zip(D[0], I[0]): if idx < len(data): append(...)
\* up to the first hit whose data[idx] raises.
RECURSIVE AppendHits(_, _, _, _, _, _)
AppendHits(v, name, p2, hits, ndocs, r) ==
    IF r > Len(hits) THEN [raised |-> FALSE, added |-> << >>]
    ELSE IF HitRaises(hits[r], ndocs) THEN [raised |-> TRUE, added |-> << >>]
    ELSE LET rest == AppendHits(v, name, p2, hits, ndocs, r + 1)
         IN  IF hits[r].idx < ndocs
             THEN [raised |-> rest.raised,
                   added  |-> <<ResultOf(v, name, p2, hits[r], ndocs)>>
                              \o rest.added]
             ELSE rest

\* The body of `for index_name in indices` with its try/except: what it
\* appends to all_results, whether the except branch ran, and the
\* index.search call it made (calls = << >> when loading raised first) with
\* the labels I[0] the call returned (<< >> when it raised).
SearchOne(v, k, q, name, s) ==
    LET p2 == IndexPriority2(v, name)
        sk == SearchK(v, k, p2, s.docs)
    IN  IF ~ s.loadable
        THEN [raised |-> TRUE, added |-> << >>, calls |-> << >>]
        ELSE IF SearchRaises(sk)
        THEN [raised |-> TRUE, added |-> << >>,
              calls |-> << [name |-> name, vec |-> q, k |-> sk,
                            labels |-> << >>] >>]
        ELSE LET hits == FaissSearch(s.vecs, q, sk.num \div sk.den)
                 app  == AppendHits(v, name, p2, hits, s.docs, 1)
             IN  [raised |-> app.raised, added |-> app.added,
                  calls |-> << [name |-> name, vec |-> q, k |-> sk,
                                labels |-> [r \in 1 .. Len(hits) |-> hits[r].idx]] >>]

\* ------------------------------------------------------- sort and cut
\* list.sort(key=score) is a stable merge sort: of two elements with equal
\* scores the one that was earlier in the list stays earlier.
RECURSIVE MergeByScore(_, _)
MergeByScore(a, b) ==
    IF a = << >> THEN b
    ELSE IF b = << >> THEN a
    ELSE IF b[1].score < a[1].score
         THEN <<b[1]>> \o MergeByScore(a, Tail(b))
         ELSE <<a[1]>> \o MergeByScore(Tail(a), b)

RECURSIVE MergeSortByScore(_)
MergeSortByScore(rs) ==
    IF Len(rs) <= 1 THEN rs
    ELSE LET h == Len(rs) \div 2
         IN  MergeByScore(MergeSortByScore(SubSeq(rs, 1, h)),
                          MergeSortByScore(SubSeq(rs, h + 1, Len(rs))))

\* Fault: the list is returned in accumulation order.
SortByScore_NoSort(rs) == rs

SortByScore(rs) == MergeSortByScore(rs)

Min(a, b) == IF a < b THEN a ELSE b

\* Fault: the slice is missing.
Truncate_NoCut(v, rs) == rs

\* Fault: the slice keeps the end of the list, all_results[-cap:].
Truncate_Tail(v, rs) ==
    SubSeq(rs, Len(rs) - Min(Len(rs), overall_result_cap(v)) + 1, Len(rs))

\* all_results[:min(len(all_results), cap)]
Truncate(v, rs) == SubSeq(rs, 1, Min(Len(rs), overall_result_cap(v)))

\* k = k * 2 for queries about propositions (pages only).
EffectiveBaseK(v, q, k) ==
    IF v = "pages" /\ (InLowerQuery("proposição", q) \/ InLowerQuery("proposicoes", q))
    THEN k * 2 ELSE k

\* ------------------------------------------- the whole call, as a function
RECURSIVE Accumulate(_, _, _, _, _, _)
Accumulate(v, f, qv, k, names, i) ==
    IF i > Len(names) THEN << >>
    ELSE SearchOne(v, k, qv, names[i], f[names[i]]).added
         \o Accumulate(v, f, qv, k, names, i + 1)

\* search_all_indices(manager, query, k) given the embedding qv of query.
SearchAllIndices(v, f, q, qv, k) ==
    Truncate(v, SortByScore(
        Accumulate(v, f, qv, EffectiveBaseK(v, q, k),
                   get_available_indices(f), 1)))

\* ------------------------------------------------------- format_context
\* Keys of context_by_source in insertion order (first occurrence).
RECURSIVE SourcesInOrder(_, _, _)
SourcesInOrder(rs, i, acc) ==
    IF i > Len(rs) THEN acc
    ELSE IF \E j \in 1 .. Len(acc) : acc[j] = rs[i].source
         THEN SourcesInOrder(rs, i + 1, acc)
         ELSE SourcesInOrder(rs, i + 1, Append(acc, rs[i].source))

\* context_by_source[source]: the texts of one source, in rank order.
RECURSIVE TextsOf(_, _, _)
TextsOf(rs, src, i) ==
    IF i > Len(rs) THEN << >>
    ELSE IF rs[i].source = src
         THEN << [kind |-> "text", text |-> rs[i].text, source |-> ""] >>
              \o TextsOf(rs, src, i + 1)
         ELSE TextsOf(rs, src, i + 1)

\* Fault: the summaries are tested first in app, the insights first in pages.
FixedSources_Swapped(v) ==
    IF v = "app"
    THEN <<"sumarizacoes", "insights_distribuicao", "insights_despesas">>
    ELSE <<"insights_distribuicao", "insights_despesas", "sumarizacoes",
           "proposicoes">>

\* The sources with a section of their own, in the order the code tests
\* them, and the title put before source.upper() in their header.
FixedSources(v) ==
    IF v = "app"
    THEN <<"insights_distribuicao", "insights_despesas", "sumarizacoes">>
    ELSE <<"sumarizacoes", "proposicoes", "insights_distribuicao",
           "insights_despesas">>

IsFixedSource(v, src) ==
    \E i \in 1 .. Len(FixedSources(v)) : FixedSources(v)[i] = src

HeaderTitle(v, src) ==
    IF v = "app"
    THEN CASE src = "insights_distribuicao" -> "DISTRIBUICAO PARTIDARIA (ANALISE GERAL)"
           [] src \in {"insights_despesas", "sumarizacoes"} -> "UPPER"
           [] OTHER -> "DADOS ESPECIFICOS: UPPER"
    ELSE CASE src = "sumarizacoes" -> "SUMARIZACOES DE PROPOSICOES"
           [] src = "proposicoes"  -> "PROPOSICOES ESPECIFICAS"
           [] src \in {"insights_distribuicao", "insights_despesas"} -> "INSIGHTS: UPPER"
           [] OTHER -> "DADOS COMPLEMENTARES: UPPER"

\* formatted_parts.append(header); formatted_parts.extend(texts)
Section(v, rs, src) ==
    << [kind |-> "header", text |-> HeaderTitle(v, src), source |-> src] >>
    \o TextsOf(rs, src, 1)

\* Fault: the `del` statements are missing.
RemainingSources_NoDel(v, srcs) == srcs

\* The keys left in context_by_source after the `del` statements.
RemainingSources(v, srcs) ==
    SelectSeq(srcs, LAMBDA x : ~ IsFixedSource(v, x))

RECURSIVE Sections(_, _, _, _, _)
Sections(v, rs, srcs, present, i) ==
    IF i > Len(srcs) THEN << >>
    ELSE (IF srcs[i] \in present THEN Section(v, rs, srcs[i]) ELSE << >>)
         \o Sections(v, rs, srcs, present, i + 1)

\* Fault: the loop over the remaining keys runs before the fixed sections.
format_context_RemainingFirst(v, rs) ==
    LET srcs    == SourcesInOrder(rs, 1, << >>)
        present == { srcs[i] : i \in 1 .. Len(srcs) }
    IN  Sections(v, rs, RemainingSources(v, srcs), present, 1)
        \o Sections(v, rs, FixedSources(v), present, 1)

\* format_context(results): formatted_parts, the list that "\n".join turns
\* into the context string.
format_context(v, rs) ==
    LET srcs    == SourcesInOrder(rs, 1, << >>)
        present == { srcs[i] : i \in 1 .. Len(srcs) }
    IN  Sections(v, rs, FixedSources(v), present, 1)
        \o Sections(v, rs, RemainingSources(v, srcs), present, 1)

\* ----------------------------------------------------------------- state
VARIABLES
    variant,      \* which implementation runs
    fs,           \* data/embeddings: Names -> stored collection
    query,        \* the question
    base_k,       \* the argument k
    pc,           \* position in main: "start", "loop", "done", "formatted",
                  \* "answered", "raised", "crashed"
    indices,      \* get_available_indices()
    pos,          \* position of the for loop in indices (1-based)
    k,            \* the local k (doubled by pages for proposition queries)
    query_emb,    \* the query vector, -1 before the embedding
    all_results,  \* all_results while the loop runs
    results,      \* the list search_all_indices returned
    embed_calls,  \* calls of manager.gerar_embeddings_batch so far
    search_log,   \* index.search calls so far
    failed,       \* collections whose iteration ended in the except branch
    context       \* formatted_parts of format_context(results)

retrieval == <<variant, fs, query, base_k, pc, indices, pos, k, query_emb,
               all_results, results, embed_calls, search_log, failed, context>>

inputs == <<variant, fs, query, base_k>>

\* =================================================================
\* Self-Ask: src/app/utils/self_ask.py ("app") and src/utils/self_ask.py
\* ("utils")
\* =================================================================
\* A string is the sequence of its characters; an answer is the sequence of
\* the pieces it is made of.
SelfAskImpls == {"app", "utils"}

UpperCase == <<"A", "B", "C", "D", "E", "F", "G", "H", "I", "J", "K", "L", "M",
               "N", "O", "P", "Q", "R", "S", "T", "U", "V", "W", "X", "Y", "Z",
               "Ç", "Ã", "Õ", "Á", "É", "Í", "Ó", "Ú">>
LowerCase == <<"a", "b", "c", "d", "e", "f", "g", "h", "i", "j", "k", "l", "m",
               "n", "o", "p", "q", "r", "s", "t", "u", "v", "w", "x", "y", "z",
               "ç", "ã", "õ", "á", "é", "í", "ó", "ú">>

\* str.lower(), character by character.
LowerChar(c) ==
    IF \E i \in 1 .. Len(UpperCase) : UpperCase[i] = c
    THEN LowerCase[CHOOSE i \in 1 .. Len(UpperCase) : UpperCase[i] = c]
    ELSE c

LowerStr(str) == [i \in 1 .. Len(str) |-> LowerChar(str[i])]

\* `key in text` for two strings.
IsSubstring(key, text) ==
    \E i \in 0 .. (Len(text) - Len(key)) :
        SubSeq(text, i + 1, i + Len(key)) = key

Q_PARTIDOS == <<"P", "a", "r", "t", "i", "d", "o", "s">>
Q_DESPESAS_PARTIDO == <<"D", "E", "S", "P", "E", "S", "A", "S", " ", "P", "a", "r", "t", "i", "d", "o">>
Q_PROPOSICAO == <<"P", "r", "o", "p", "o", "s", "i", "ç", "ã", "o">>
Q_PROPOSICOES == <<"p", "r", "o", "p", "o", "s", "i", "c", "o", "e", "s">>
Q_DESPESA == <<"d", "e", "s", "p", "e", "s", "a">>
Q_SAUDE == <<"s", "a", "u", "d", "e">>
K_PARTIDO == <<"p", "a", "r", "t", "i", "d", "o">>
K_DESPESA == <<"d", "e", "s", "p", "e", "s", "a">>
K_PROPOSICAO == <<"p", "r", "o", "p", "o", "s", "i", "ç", "ã", "o">>
K_DESPESAS == <<"d", "e", "s", "p", "e", "s", "a", "s">>
K_PROPOSICOES == <<"p", "r", "o", "p", "o", "s", "i", "c", "o", "e", "s">>

\* The questions asked.
Questions ==
    { Q_PARTIDOS,
      Q_DESPESAS_PARTIDO,
      Q_PROPOSICAO,
      Q_PROPOSICOES,
      Q_DESPESA,
      Q_SAUDE }

\* The keys of the catalog, in the order of the dictionary literal.
CatalogKeys(impl) ==
    IF impl = "app"
    THEN << K_PARTIDO, K_DESPESA, K_PROPOSICAO >>
    ELSE << K_PARTIDO, K_DESPESAS, K_PROPOSICOES >>

\* confidence is a fraction num/den with den > 0; float 0.0 is 0/1.
Frac(n, d) == [num |-> n, den |-> d]
FracEq(a, b) == a.num * b.den = b.num * a.den
FracLess(a, b) == a.num * b.den < b.num * a.den

None == [none |-> TRUE, text |-> << >>]
Str(text) == [none |-> FALSE, text |-> text]

\* SubQuestion(question=..., context=...): answer None, confidence 0.0.
SubQuestion(q, c) ==
    [question |-> q, context |-> c, answer |-> None, confidence |-> Frac(0, 1),
     evidence |-> << >>, hits |-> << >>, answered |-> FALSE]

\* The sub-question lists of the catalog, by position of the key.
CatalogEntry(impl, i) ==
    IF impl = "app"
    THEN CASE i = 1 ->
                << SubQuestion("Quais são todos os partidos representados?",
                               "distribuição partidária"),
                   SubQuestion("Qual é o número de deputados por partido?",
                               "contagem por partido") >>
           [] i = 2 ->
                << SubQuestion("Quais são os tipos de despesas registrados?",
                               "categorias de despesas"),
                   SubQuestion("Qual é o valor total por tipo de despesa?",
                               "soma por categoria") >>
           [] i = 3 ->
                << SubQuestion("Quais são as proposições relacionadas ao tema?",
                               "busca por tema"),
                   SubQuestion("Quais são os principais pontos dessas proposições?",
                               "análise de conteúdo") >>
    ELSE CASE i = 1 ->
                << SubQuestion("Quais são todos os partidos representados?", ""),
                   SubQuestion("Quantos deputados cada partido tem?", ""),
                   SubQuestion("Qual partido tem mais representantes?", "") >>
           [] i = 2 ->
                << SubQuestion("Quais são os tipos de despesas registrados?", ""),
                   SubQuestion("Qual o valor total por deputado?", ""),
                   SubQuestion("Quais são as despesas mais comuns?", "") >>
           [] i = 3 ->
                << SubQuestion("Qual o tema da proposição?", ""),
                   SubQuestion("Quais são as palavras-chave relevantes?", ""),
                   SubQuestion("Existem proposições similares?", "") >>

\* Fault: nothing is returned when no key matches.
GenericSubQuestions_Empty(impl) == << >>

\* The list returned when no key matches.
GenericSubQuestions(impl) ==
    IF impl = "app"
    THEN << SubQuestion("Qual é o contexto geral da pergunta?", "contexto geral"),
            SubQuestion("Quais dados são relevantes para esta pergunta?",
                        "dados relevantes") >>
    ELSE << SubQuestion("Poderia especificar melhor sua pergunta?", "") >>

\* `key.lower() in question.lower()`
KeyMatches(key, q) == IsSubstring(LowerStr(key), LowerStr(q))

\* Fault: the last matching key decides instead of the first.
decompose_question_LastMatch(impl, q) ==
    LET keys  == CatalogKeys(impl)
        match == { i \in 1 .. Len(keys) : KeyMatches(keys[i], q) }
    IN  IF match = {} THEN GenericSubQuestions(impl)
        ELSE CatalogEntry(impl, CHOOSE i \in match : \A j \in match : j <= i)

\* decompose_question / _gerar_subperguntas: the list of the first key, in
\* catalog order, that the question contains; the generic list otherwise.
decompose_question(impl, q) ==
    LET keys  == CatalogKeys(impl)
        match == { i \in 1 .. Len(keys) : KeyMatches(keys[i], q) }
    IN  IF match = {} THEN GenericSubQuestions(impl)
        ELSE CatalogEntry(impl, CHOOSE i \in match : \A j \in match : i <= j)

\* sep.join(parts) for a list of strings.
RECURSIVE Join(_, _)
Join(parts, sep) ==
    IF Len(parts) = 0 THEN << >>
    ELSE IF Len(parts) = 1 THEN parts[1]
    ELSE parts[1] \o sep \o Join(Tail(parts), sep)

\* list[:n]
Take(l, n) == SubSeq(l, 1, Min(n, Len(l)))

\* What embedding_manager.search / buscar_similares hands back for one
\* sub-question: it raises, or returns up to MaxEvidence results in ascending
\* order of score. Scores are stored doubled (score2 = 2 * score).
EvidenceList(n, first2, blank) ==
    [i \in 1 .. n |->
        [text   |-> IF blank THEN << >> ELSE << "d" \o ToString(i) >>,
         score2 |-> first2 + (i - 1)]]

SearchOutcomes ==
    { [raised |-> TRUE, results |-> << >>] }
    \cup { [raised |-> FALSE, results |-> EvidenceList(n, s, b)] :
             n \in 0 .. MaxEvidence, s \in 0 .. MaxScore2, b \in BOOLEAN }

\* min(r['score'] for r in results), doubled.
MinScore2(found) ==
    LET S == { found[i].score2 : i \in 1 .. Len(found) }
    IN  CHOOSE m \in S : \A x \in S : m <= x

NoInformation == << "Não foi possível encontrar informações relevantes." >>

\* _format_answer: " ".join(texts[:2])
FormatAnswer(texts) == Join(Take(texts, 2), << " " >>)

\* Fault: the confidence of the other implementation, 1 - s instead of
\* 1 / (1 + s) and the reverse.
Confidence_Other(impl, found) ==
    IF Len(found) = 0 THEN Frac(0, 1)
    ELSE IF impl = "app"
         THEN Frac(2, 2 + found[1].score2)
         ELSE Frac(2 - MinScore2(found), 2)

\* app: 1.0 - min(score) when results else 0.0
\* utils: 1.0 / (1.0 + resultados[0]["distancia"]) if resultados else 0
Confidence(impl, found) ==
    IF Len(found) = 0 THEN Frac(0, 1)
    ELSE IF impl = "app"
         THEN Frac(2 - MinScore2(found), 2)
         ELSE Frac(2, 2 + found[1].score2)

\* answer_sub_question / _buscar_contexto on the results of the search.
AnswerSubQuestion(impl, sq, found) ==
    [sq EXCEPT
        !.answer     = IF impl = "utils" THEN None
                       ELSE IF Len(found) = 0 THEN Str(NoInformation)
                       ELSE Str(FormatAnswer([i \in 1 .. Len(found) |->
                                                 found[i].text])),
        !.confidence = Confidence(impl, found),
        !.evidence   = found,
        !.answered   = TRUE]

Threshold == Frac(1, 2)

\* bool(sq.answer): neither None nor the empty string.
Truthy(a) == ~ a.none /\ Len(a.text) > 0

\* Fault: `>=` instead of `>`.
IsConfident_AtLeast(sq) ==
    Truthy(sq.answer) /\ ~ FracLess(sq.confidence, Threshold)

\* `sq.answer and sq.confidence > 0.5`
IsConfident(sq) ==
    Truthy(sq.answer) /\ FracLess(Threshold, sq.confidence)

Insufficient ==
    << "Desculpe, não consegui encontrar informações suficientes para responder sua pergunta." >>

\* _combine_answers(sub_questions)
CombineAnswers(sqs) ==
    LET confident == SelectSeq(sqs, IsConfident)
    IN  IF Len(confident) = 0 THEN Insufficient
        ELSE Join([i \in 1 .. Len(confident) |-> confident[i].answer.text],
                  << " " >>)

\* _formatar_resposta(pergunta, contextos)
RECURSIVE FormatarContextos(_, _)
FormatarContextos(sqs, i) ==
    IF i > Len(sqs) THEN << >>
    ELSE << "- ", sqs[i].question, "\n" >>
         \o (IF Len(sqs[i].evidence) > 0
             THEN << "  → " >> \o Take(sqs[i].evidence[1].text, 200)
                  \o << "...\n\n" >>
             ELSE << >>)
         \o FormatarContextos(sqs, i + 1)

FormatarResposta(q, sqs) ==
    << "Analisando sua pergunta: '" >> \o q \o << "'\n\n" >>
    \o FormatarContextos(sqs, 1)

\* ------------- EmbeddingManager of src/app/utils/embedding_utils.py
\* A dictionary key: the string str(n) or the integer n.  Python compares
\* keys by hash and ==, so the integer 3 is never the key "3".
StrKey(n) == [type |-> "str", of |-> n]
IntKey(n) == [type |-> "int", of |-> n]

\* The text indexed at a slot.
IndexedText(slot) == << "t" \o ToString(slot) >>

\* text_mapping = {str(i): text for i, text in enumerate(texts)}, and the
\* same keys after json.dump / json.load.
text_mapping_of(n) ==
    [key \in { StrKey(i) : i \in 0 .. n - 1 } |-> IndexedText(key.of)]

\* The manager after process_data or load_index over n texts: one vector
\* per text in the index.
Indexed(n) ==
    [kind |-> "indexed", index |-> Pattern(n), text_mapping |-> text_mapping_of(n)]

\* An embedding manager known only by what its search hands back.
Supplied == [kind |-> "supplied", index |-> << >>, text_mapping |-> << >>]

Managers == { Indexed(n) : n \in 1 .. MaxTexts }

\* for dist, idx in zip(distances[0], indices[0]):
\*     if idx in self.text_mapping: results.append({text, score})
RECURSIVE FormatHits(_, _, _)
FormatHits(mapping, hits, r) ==
    IF r > Len(hits) THEN << >>
    ELSE LET h == hits[r]
         IN  (IF IntKey(h.idx) \in DOMAIN mapping
              THEN << [text |-> mapping[StrKey(h.idx)], score2 |-> 2 * h.dist] >>
              ELSE << >>)
             \o FormatHits(mapping, hits, r + 1)

\* EmbeddingManager.search(query, k): the hits of index.search and the
\* list returned.
EmbeddingManagerSearch(m, qv, count) ==
    LET hits == FaissSearch(m.index, qv, count)
    IN  [hits |-> hits, results |-> FormatHits(m.text_mapping, hits, 1)]

\* results = self.embedding_manager.search(sub_question.question, k=3)
SubQuestionK == 3

\* The sub-questions a finished call leaves behind: their questions and
\* whether any of them carries an answer or a confidence.
NoEarlier == [questions |-> << >>, touched |-> FALSE]
Left(sqs) ==
    [questions |-> [i \in 1 .. Len(sqs) |-> sqs[i].question],
     touched   |-> \E i \in 1 .. Len(sqs) :
                      \/ sqs[i].answer # None
                      \/ ~ FracEq(sqs[i].confidence, Frac(0, 1))]

VARIABLES
    manager,        \* self.embedding_manager of the assistant
    earlier,        \* what the previous call on this assistant left behind
    impl,           \* which SelfAskAssistant runs
    question,       \* the question passed to answer_question / responder
    phase,          \* "IDLE", "NEW", "DECOMPOSED", "COMBINED", "RAISED",
                    \* "SHOWN", "ERROR_SHOWN"
    sub_questions,  \* the list decompose_question returned
    next_sub,       \* position of the loop over the sub-questions
    final_answer,   \* what answer_question / responder returned
    shown           \* what the chat handler put on the page as its reply

selfask == <<manager, earlier, impl, question, phase, sub_questions, next_sub,
             final_answer, shown>>

VARIABLES
    frames,         \* rows of deputados_df, proposicoes_df, despesas_df
    index_file,     \* the vectors of data/embeddings/{name}_index.faiss, by
                    \* the row each was computed from
    built,          \* RAGManager constructions so far
    rag_pc,         \* "fresh", "ready", "failed", "retrieved", "prompted"
    labels,         \* I[0] of the last search of retrieve
    retrieved,      \* what retrieve returned
    prompt          \* the context sections generate_prompt wrote

rag == <<frames, index_file, built, rag_pc, labels, retrieved, prompt>>

vars == <<retrieval, selfask, rag>>

\* No RAG manager exists.
RagIdle ==
    /\ frames = [f \in {"deputados", "proposicoes", "despesas"} |-> 0]
    /\ index_file = << >>
    /\ built = 0
    /\ rag_pc = "fresh"
    /\ labels = << >>
    /\ retrieved = << >>
    /\ prompt = << >>

\* No Self-Ask call is in progress.
SelfAskIdle ==
    /\ manager = Supplied
    /\ earlier = NoEarlier
    /\ impl = "app"
    /\ question = << >>
    /\ phase = "IDLE"
    /\ sub_questions = << >>
    /\ next_sub = 1
    /\ final_answer = << >>
    /\ shown = << >>

Init ==
    /\ variant \in Variants
    /\ fs \in FileSystems
    /\ query \in Queries
    /\ base_k \in BaseKs
    /\ pc = "start"
    /\ indices = << >>
    /\ pos = 1
    /\ k = base_k
    /\ query_emb = -1
    /\ all_results = << >>
    /\ results = << >>
    /\ embed_calls = 0
    /\ search_log = << >>
    /\ failed = {}
    /\ context = << >>
    /\ SelfAskIdle
    /\ RagIdle

\* Lines 47-51 (and 63-65 in pages): list the indices, embed the query once.
Embed ==
    /\ pc = "start"
    /\ \E qv \in Coords : query_emb' = qv
    /\ \E listing \in Glob(fs) : indices' = Sorted(listing)
    /\ embed_calls' = embed_calls + 1
    /\ k' = EffectiveBaseK(variant, query, base_k)
    /\ pc' = "loop"
    /\ UNCHANGED <<rag, selfask, inputs, pos, all_results, results, search_log, failed, context>>

\* The embedding gateway raises: search_all_indices propagates it.
EmbedRaises ==
    /\ pc = "start"
    /\ \E listing \in Glob(fs) : indices' = Sorted(listing)
    /\ embed_calls' = embed_calls + 1
    /\ pc' = "raised"
    /\ UNCHANGED <<rag, selfask, inputs, pos, k, query_emb, all_results, results,
                   search_log, failed, context>>

\* Fault: no try/except around the loop body, a failing collection aborts
\* the call.
SearchIndex_Abort ==
    /\ pc = "loop"
    /\ pos <= Len(indices)
    /\ LET name == indices[pos]
           r    == SearchOne(variant, k, query_emb, name, fs[name])
       IN  /\ all_results' = all_results \o r.added
           /\ search_log' = search_log \o r.calls
           /\ failed' = IF r.raised THEN failed \cup {name} ELSE failed
           /\ pc' = IF r.raised THEN "raised" ELSE pc
    /\ pos' = pos + 1
    /\ UNCHANGED <<rag, selfask, inputs, indices, k, query_emb, results, embed_calls, context>>

\* Fault: the query is embedded again in every iteration.
SearchIndex_ReEmbed ==
    /\ pc = "loop"
    /\ pos <= Len(indices)
    /\ LET name == indices[pos]
           r    == SearchOne(variant, k, query_emb, name, fs[name])
       IN  /\ all_results' = all_results \o r.added
           /\ search_log' = search_log \o r.calls
           /\ failed' = IF r.raised THEN failed \cup {name} ELSE failed
    /\ embed_calls' = embed_calls + 1
    /\ pos' = pos + 1
    /\ UNCHANGED <<rag, selfask, inputs, pc, indices, k, query_emb, results, context>>

\* One iteration of `for index_name in indices`.
SearchIndex ==
    /\ pc = "loop"
    /\ pos <= Len(indices)
    /\ LET name == indices[pos]
           r    == SearchOne(variant, k, query_emb, name, fs[name])
       IN  /\ all_results' = all_results \o r.added
           /\ search_log' = search_log \o r.calls
           /\ failed' = IF r.raised THEN failed \cup {name} ELSE failed
    /\ pos' = pos + 1
    /\ UNCHANGED <<rag, selfask, inputs, pc, indices, k, query_emb, results, embed_calls, context>>

\* all_results.sort(key=score); return all_results[:min(len, cap)]
SortAndReturn ==
    /\ pc = "loop"
    /\ pos > Len(indices)
    /\ all_results' = SortByScore(all_results)
    /\ results' = Truncate(variant, all_results')
    /\ pc' = "done"
    /\ UNCHANGED <<rag, selfask, inputs, indices, pos, k, query_emb, embed_calls,
                   search_log, failed, context>>

\* context = format_context(results)
FormatContext ==
    /\ pc = "done"
    /\ context' = format_context(variant, results)
    /\ pc' = "formatted"
    /\ UNCHANGED <<rag, selfask, inputs, indices, pos, k, query_emb, all_results, results,
                   embed_calls, search_log, failed>>

\* response = get_gemini_response(prompt, context); st.markdown(response)
Generate ==
    /\ pc = "formatted"
    /\ shown' = << "response" >>
    /\ pc' = "answered"
    /\ UNCHANGED <<rag, inputs, indices, pos, k, query_emb, all_results, results,
                   embed_calls, search_log, failed, context>>
    /\ UNCHANGED <<manager, earlier, impl, question, phase, sub_questions,
                   next_sub, final_answer>>

\* model.generate_content raises: main has no handler, the exception leaves
\* it and nothing is put on the page.
GenerateRaises ==
    /\ pc = "formatted"
    /\ pc' = "crashed"
    /\ UNCHANGED <<rag, selfask, inputs, indices, pos, k, query_emb, all_results,
                   results, embed_calls, search_log, failed, context>>

Next == \/ Embed
        \/ EmbedRaises
        \/ SearchIndex
        \/ SortAndReturn
        \/ FormatContext
        \/ Generate
        \/ GenerateRaises

Spec == Init /\ [][Next]_vars

\* The calls made while every stored collection is sound: the setting in
\* which one collection is then made unavailable.
InitSound ==
    /\ Init
    /\ \A n \in Names : fs[n].present => fs[n] \in SoundShapes

SpecSound == InitSound /\ [][Next]_vars

\* ------------------------------------------ format_context on any list
\* A ranked list of up to MaxResults results whose i-th entry comes from
\* srcs[i]: ascending scores, one document per rank.
RankedList(srcs) ==
    [i \in 1 .. Len(srcs) |->
        [text   |-> Doc(srcs[i], i - 1),
         score  |-> i,
         source |-> srcs[i],
         dist   |-> i,
         idx    |-> i - 1]]

RankedSources == UNION { [1 .. n -> Names] : n \in 0 .. MaxResults }

\* format_context is a module-level function of the list it is given: the
\* call starts with any ranked list in hand.
InitFormat ==
    /\ variant \in Variants
    /\ fs = [n \in Names |-> NoIndex]
    /\ query = <<"Quais", "partidos">>
    /\ base_k = 10
    /\ pc = "done"
    /\ indices = << >>
    /\ pos = 1
    /\ k = base_k
    /\ query_emb = 0
    /\ \E srcs \in RankedSources : results = RankedList(srcs)
    /\ all_results = results
    /\ embed_calls = 1
    /\ search_log = << >>
    /\ failed = {}
    /\ context = << >>
    /\ SelfAskIdle
    /\ RagIdle

SpecFormat == InitFormat /\ [][FormatContext]_vars

\* ------------------------------------------------------ Self-Ask calls
\* No retrieval of main is in progress.
RetrievalIdle ==
    /\ variant = "app"
    /\ fs = [n \in Names |-> NoIndex]
    /\ query = <<"Quais", "partidos">>
    /\ base_k = 10
    /\ pc = "start"
    /\ indices = << >>
    /\ pos = 1
    /\ k = base_k
    /\ query_emb = -1
    /\ all_results = << >>
    /\ results = << >>
    /\ embed_calls = 0
    /\ search_log = << >>
    /\ failed = {}
    /\ context = << >>

\* answer_question(question) / responder(pergunta) is entered.
InitSelfAsk ==
    /\ RetrievalIdle
    /\ RagIdle
    /\ impl \in SelfAskImpls
    /\ manager \in (IF impl = "app" THEN Managers ELSE {}) \cup {Supplied}
    /\ earlier = NoEarlier
    /\ question \in Questions
    /\ phase = "NEW"
    /\ sub_questions = << >>
    /\ next_sub = 1
    /\ final_answer = << >>
    /\ shown = << >>

\* Decomposition over a catalog whose SubQuestion objects outlive the call:
\* a list handed out before comes back as the previous call left it.
Decompose_SharedCatalog ==
    /\ phase = "NEW"
    /\ LET fresh == decompose_question(impl, question)
       IN  sub_questions' =
              IF /\ earlier.touched
                 /\ earlier.questions = [i \in 1 .. Len(fresh) |-> fresh[i].question]
              THEN [i \in 1 .. Len(fresh) |->
                       [fresh[i] EXCEPT !.answer = Str(NoInformation)]]
              ELSE fresh
    /\ next_sub' = 1
    /\ phase' = "DECOMPOSED"
    /\ UNCHANGED <<rag, retrieval, manager, earlier, impl, question, final_answer, shown>>

\* sub_questions = self.decompose_question(question)
Decompose ==
    /\ phase = "NEW"
    /\ sub_questions' = decompose_question(impl, question)
    /\ next_sub' = 1
    /\ phase' = "DECOMPOSED"
    /\ UNCHANGED <<rag, retrieval, manager, earlier, impl, question, final_answer, shown>>

\* One iteration of `for sub_q in sub_questions`: the search returns.
AnswerNext ==
    /\ phase = "DECOMPOSED"
    /\ manager.kind = "supplied"
    /\ next_sub <= Len(sub_questions)
    /\ \E o \in SearchOutcomes :
          /\ ~ o.raised
          /\ sub_questions' =
                [sub_questions EXCEPT
                    ![next_sub] = AnswerSubQuestion(impl, @, o.results)]
    /\ next_sub' = next_sub + 1
    /\ UNCHANGED <<rag, retrieval, manager, earlier, impl, question, phase, final_answer, shown>>

\* One iteration of the loop with the EmbeddingManager of embedding_utils:
\* answer_sub_question over what its search returns for the sub-question.
AnswerIndexed ==
    /\ phase = "DECOMPOSED"
    /\ manager.kind = "indexed"
    /\ next_sub <= Len(sub_questions)
    /\ \E qv \in Coords :
          LET out == EmbeddingManagerSearch(manager, qv, SubQuestionK)
          IN  sub_questions' =
                 [sub_questions EXCEPT
                     ![next_sub] =
                         [AnswerSubQuestion(impl, @, out.results)
                             EXCEPT !.hits = out.hits]]
    /\ next_sub' = next_sub + 1
    /\ UNCHANGED <<rag, retrieval, manager, earlier, impl, question, phase,
                   final_answer, shown>>

\* One iteration in which the search raises: neither answer_sub_question
\* nor answer_question (nor _buscar_contexto, responder) has a handler.
SearchFails ==
    /\ phase = "DECOMPOSED"
    /\ manager.kind = "supplied"
    /\ next_sub <= Len(sub_questions)
    /\ \E o \in SearchOutcomes : o.raised
    /\ phase' = "RAISED"
    /\ UNCHANGED <<rag, retrieval, manager, earlier, impl, question, sub_questions, next_sub,
                   final_answer, shown>>

\* Combine without waiting for the end of the loop.
Combine_Early ==
    /\ phase = "DECOMPOSED"
    /\ final_answer' = IF impl = "app" THEN CombineAnswers(sub_questions)
                       ELSE FormatarResposta(question, sub_questions)
    /\ phase' = "COMBINED"
    /\ UNCHANGED <<rag, retrieval, manager, earlier, impl, question, sub_questions, next_sub, shown>>

\* final_answer = self._combine_answers(sub_questions); return
Combine ==
    /\ phase = "DECOMPOSED"
    /\ next_sub > Len(sub_questions)
    /\ final_answer' = IF impl = "app" THEN CombineAnswers(sub_questions)
                       ELSE FormatarResposta(question, sub_questions)
    /\ phase' = "COMBINED"
    /\ UNCHANGED <<rag, retrieval, manager, earlier, impl, question, sub_questions, next_sub, shown>>

ErrorMessage == << "Erro ao gerar resposta. Por favor, tente novamente." >>

\* ChatInterface.render, lines 76-79: st.write(response)
RenderResponse ==
    /\ impl = "app"
    /\ phase = "COMBINED"
    /\ shown' = final_answer
    /\ phase' = "SHOWN"
    /\ UNCHANGED <<rag, retrieval, manager, earlier, impl, question, sub_questions, next_sub,
                   final_answer>>

\* ChatInterface.render, lines 80-83: except Exception: st.error(error_msg)
RenderError ==
    /\ impl = "app"
    /\ phase = "RAISED"
    /\ shown' = ErrorMessage
    /\ phase' = "ERROR_SHOWN"
    /\ UNCHANGED <<rag, retrieval, manager, earlier, impl, question, sub_questions, next_sub,
                   final_answer>>

\* ChatInterface.render, lines 63-76, on the next submission: the assistant
\* kept in st.session_state gets another question.
NewCall ==
    /\ impl = "app"
    /\ phase \in {"SHOWN", "ERROR_SHOWN"}
    /\ question' \in Questions
    /\ earlier' = Left(sub_questions)
    /\ phase' = "NEW"
    /\ sub_questions' = << >>
    /\ next_sub' = 1
    /\ final_answer' = << >>
    /\ shown' = << >>
    /\ UNCHANGED <<rag, retrieval, manager, impl>>

NextSelfAsk == \/ Decompose
               \/ AnswerNext
               \/ AnswerIndexed
               \/ NewCall
               \/ SearchFails
               \/ Combine
               \/ RenderResponse
               \/ RenderError

SpecSelfAsk == InitSelfAsk /\ [][NextSelfAsk]_vars

\* ------------------------- RAGManager of src/app/utils/rag_manager.py
\* The data frames of the data loader and their numbers of rows.
FrameNames == {"deputados", "proposicoes", "despesas"}
FrameSizes == [FrameNames -> 0 .. MaxRows]

W_DEPUTADO == <<"D", "e", "p", "u", "t", "a", "d", "o">>
W_PROPOSICAO == <<"P", "r", "o", "p", "o", "s", "i", "ç", "ã", "o">>
W_DESPESA == <<"D", "e", "s", "p", "e", "s", "a">>

\* Field values of the rows: a name, and an ementa that on the odd rows
\* speaks of a deputy.
Nome(row) == <<"N", ToString(row)>>
Ementa(row) == IF row % 2 = 1 THEN <<"d", "o", " ">> \o W_DEPUTADO
               ELSE <<"S", "a", "u", "d", "e">>

\* f"Deputado: {nome} ({siglaPartido}-{siglaUf})"
DeputadoDoc(row) ==
    W_DEPUTADO \o <<":", " ">> \o Nome(row) \o <<" ", "(", "P", "-", "U", ")">>

\* f"Proposição: {siglaTipo} {numero}/{ano} - {ementa}"
ProposicaoDoc(row) ==
    W_PROPOSICAO \o <<":", " ", "P", "L", " ", ToString(row), "/", "2", "4",
                      " ", "-", " ">> \o Ementa(row)

\* f"Despesa: {nomeDeputado} - {tipoDespesa} - R$ {valorDocumento:,.2f}"
DespesaDoc(row) ==
    W_DESPESA \o <<":", " ">> \o Nome(row)
        \o <<" ", "-", " ", "T", " ", "-", " ", "R", "$", " ", "1", ".", "0", "0">>

\* The document text of a row of a frame.
DocOf(frame, row) ==
    CASE frame = "deputados"   -> DeputadoDoc(row)
      [] frame = "proposicoes" -> ProposicaoDoc(row)
      [] OTHER                 -> DespesaDoc(row)

\* df.iloc[idx] over n rows: IndexError outside -n .. n-1, a negative idx
\* counts from the end.
IlocRaises(n, idx) == idx >= n \/ idx < 0 - n
IlocRow(n, idx) == IF idx < 0 THEN n + idx ELSE idx

\* The branch of retrieve taken for a label and the document it appends.
DocumentFor(sizes, idx) ==
    LET frame == IF idx < sizes["deputados"] THEN "deputados"
                 ELSE IF idx < sizes["proposicoes"] THEN "proposicoes"
                 ELSE "despesas"
    IN  [raised |-> IlocRaises(sizes[frame], idx),
         doc    |-> DocOf(frame, IlocRow(sizes[frame], idx))]

\* The body of retrieve after the search: the documents of the labels in
\* order, or [] from the except branch when a lookup raises.
RetrieveDocs(sizes, idxs) ==
    IF \E r \in DOMAIN idxs : DocumentFor(sizes, idxs[r]).raised
    THEN << >>
    ELSE [r \in DOMAIN idxs |-> DocumentFor(sizes, idxs[r]).doc]

\* retrieve(query, k=5) with the default and with k = 1.
RetrieveKs == {1, 5}

\* EmbeddingManager.process_data of embedding_manager.py over the n rows of
\* a frame: embeddings_array.shape[1] raises for no rows; otherwise the
\* index file is loaded when it exists (a new index when it does not), the
\* n vectors are added to it and it is written back.
ProcessData(file, frame, n) ==
    IF n = 0
    THEN [raised |-> TRUE, file |-> file]
    ELSE [raised |-> FALSE,
          file   |-> file \o [r \in 1 .. n |-> [frame |-> frame, row |-> r - 1]]]

\* The place of a row among the rows of the three frames, deputados first.
RowPosition(sizes, origin) ==
    origin.row
    + (CASE origin.frame = "deputados"   -> 0
         [] origin.frame = "proposicoes" -> sizes["deputados"]
         [] OTHER -> sizes["deputados"] + sizes["proposicoes"])

\* generate_embedding(text) of embedding_manager.py: the vector is a
\* function of the text of the row, the same every time the row is embedded.
generate_embedding(sizes, origin) == RowPosition(sizes, origin) % (MaxCoord + 1)

\* The vectors the index holds, slot by slot.
IndexVectors(sizes, file) ==
    [i \in 1 .. Len(file) |-> generate_embedding(sizes, file[i])]

\* RAGManager._process_data: the three frames in order, up to the first
\* process_data that raises.
ProcessAll(file, sizes) ==
    LET a == ProcessData(file, "deputados", sizes["deputados"])
        b == ProcessData(a.file, "proposicoes", sizes["proposicoes"])
        c == ProcessData(b.file, "despesas", sizes["despesas"])
    IN  IF a.raised THEN a ELSE IF b.raised THEN b ELSE c

\* [doc for doc in retrieved_docs if word in doc]
DocsWith(word, docs) == SelectSeq(docs, LAMBDA d : IsSubstring(word, d))

\* One section of the context, written only for a non-empty list.
PromptSection(header, docs) ==
    IF Len(docs) > 0 THEN << [header |-> header, docs |-> docs] >> ELSE << >>

\* generate_prompt: the sections of the context, in the order written.
generate_prompt(docs) ==
    PromptSection("Deputados:", DocsWith(W_DEPUTADO, docs))
    \o PromptSection("Proposições:", DocsWith(W_PROPOSICAO, docs))
    \o PromptSection("Despesas:", DocsWith(W_DESPESA, docs))

\* The frames are loaded; no index file, no RAGManager yet.
InitRag ==
    /\ RetrievalIdle
    /\ SelfAskIdle
    /\ frames \in FrameSizes
    /\ index_file = << >>
    /\ built = 0
    /\ rag_pc = "fresh"
    /\ labels = << >>
    /\ retrieved = << >>
    /\ prompt = << >>

\* RAGManager(data_loader, EmbeddingManager(name)): __init__ runs
\* _process_data and re-raises what it raises.
Construct ==
    /\ built < MaxBuilds
    /\ LET out == ProcessAll(index_file, frames)
       IN  /\ index_file' = out.file
           /\ rag_pc' = IF out.raised THEN "failed" ELSE "ready"
    /\ built' = built + 1
    /\ labels' = << >>
    /\ retrieved' = << >>
    /\ prompt' = << >>
    /\ UNCHANGED <<retrieval, selfask, frames>>

\* retrieve(query, k)
Retrieve ==
    /\ rag_pc \in {"ready", "retrieved", "prompted"}
    /\ \E qv \in Coords, count \in RetrieveKs :
          LET hits == FaissSearch(IndexVectors(frames, index_file), qv, count)
              idxs == [r \in 1 .. Len(hits) |-> hits[r].idx]
          IN  /\ labels' = idxs
              /\ retrieved' = RetrieveDocs(frames, idxs)
    /\ rag_pc' = "retrieved"
    /\ prompt' = << >>
    /\ UNCHANGED <<retrieval, selfask, frames, index_file, built>>

\* generate_prompt(query, retrieved_docs) over what retrieve returned
GeneratePrompt ==
    /\ rag_pc = "retrieved"
    /\ prompt' = generate_prompt(retrieved)
    /\ rag_pc' = "prompted"
    /\ UNCHANGED <<retrieval, selfask, frames, index_file, built, labels,
                   retrieved>>

NextRag == \/ Construct
           \/ Retrieve
           \/ GeneratePrompt

SpecRag == InitRag /\ [][NextRag]_vars

\* =================================================================
\* Properties
\* =================================================================
Returned == pc \in {"done", "formatted"}

Positions(rs) == 1 .. Len(rs)

\* Positions of the entries of rs that come from collection n.
From(rs, n) == { i \in Positions(rs) : rs[i].source = n }

\* Number of occurrences of x in rs.
Occurrences(rs, x) == Cardinality({ i \in Positions(rs) : rs[i] = x })

\* C1: the list returned by search_all_indices has at most
\* overall_result_cap entries (30 in app, 40 in pages), whatever the query,
\* the base k and the stored collections.
C1_ResultCap == Len(results) <= overall_result_cap(variant)

\* More hits were accumulated than the cap allows, and the call returned.
C1_Witness ==
    /\ pc = "done"
    /\ variant = "pages"
    /\ Len(all_results) > overall_result_cap(variant)
    /\ Len(results) = overall_result_cap(variant)

\* C2: the returned list is sorted by non-decreasing adjusted score, and the
\* cut keeps the lowest-scored entries: the returned list is the head of the
\* accumulated list (sorted in place), as long as the cap allows, and every
\* entry left out scores at least as much as every returned one.
C2_SortedLowestKept ==
    Returned =>
        /\ \A i \in 1 .. Len(results) - 1 :
              results[i].score <= results[i + 1].score
        /\ Len(results) = Min(Len(all_results), overall_result_cap(variant))
        /\ \A i \in Positions(results) : results[i] = all_results[i]
        /\ \A j \in Len(results) + 1 .. Len(all_results) :
              all_results[j].score >= results[Len(results)].score

\* A cut list with hits of two collections and two different scores, built
\* from a list that was not accumulated in score order.
C2_Witness ==
    /\ pc = "done"
    /\ Len(all_results) > Len(results)
    /\ \E i, j \in Positions(results) :
          /\ results[i].source # results[j].source
          /\ results[i].score < results[j].score
    /\ \E i, j \in Positions(results) :
          /\ results[i].source = indices[1]
          /\ results[j].source # indices[1]
          /\ j < i

\* A is configured more important than B: smaller value = higher priority.
MoreImportant(v, a, b) == IndexPriority2(v, a) < IndexPriority2(v, b)

\* For equal positive raw distances the hit of the more important
\* collection has the smaller score and the earlier place in rs.
ImportantFirst(v, rs) ==
    \A i, j \in Positions(rs) :
        ( /\ rs[i].dist = rs[j].dist
          /\ rs[i].dist > 0
          /\ MoreImportant(v, rs[i].source, rs[j].source) )
        => rs[i].score < rs[j].score /\ i < j

\* The same for the scores alone, over the distinct hits of rs.
ImportantLower(v, rs) ==
    LET hs == { [source |-> rs[i].source, dist |-> rs[i].dist,
                 score |-> rs[i].score] : i \in Positions(rs) }
    IN  \A a, b \in hs :
            ( /\ a.dist = b.dist
              /\ a.dist > 0
              /\ MoreImportant(v, a.source, b.source) )
            => a.score < b.score

\* C3 (as claimed): in src/app.py, of two hits with the same raw distance
\* d > 0 the one from the more important collection gets the smaller
\* adjusted score and comes first in the returned list.
C3_AppImportantFirst ==
    (Returned /\ variant = "app") => ImportantFirst(variant, results)

\* C4: in the pages variant, of two hits with the same raw distance d > 0
\* the one from the more important collection gets the smaller adjusted
\* score, and comes first in the returned list.
C4_PagesImportantFirst ==
    (Returned /\ variant = "pages") =>
        ImportantLower(variant, all_results) /\ ImportantFirst(variant, results)

\* Two stored documents of differently important collections at the same
\* positive distance from the query are both returned.
C4_Witness ==
    /\ pc = "done"
    /\ variant = "pages"
    /\ \E i, j \in Positions(results) :
          /\ results[i].dist = results[j].dist
          /\ results[i].dist > 0
          /\ results[i].idx >= 0 /\ results[j].idx >= 0
          /\ MoreImportant(variant, results[i].source, results[j].source)

\* C5 (as claimed): in src/app.py there are a stored collection set, a query
\* and a base k for which a hit of insights_distribuicao is returned ahead of
\* a hit of despesas that is closer to the query (0 < d_e < d_i).
C5_InsightsOverrideExists ==
    Returned =>
    \E f \in FileSystems, q \in Queries, qv \in Coords, bk \in BaseKs :
        LET rs == SearchAllIndices("app", f, q, qv, bk)
        IN  \E i, j \in Positions(rs) :
                /\ rs[i].source = "insights_distribuicao"
                /\ rs[j].source = "despesas"
                /\ 0 < rs[j].dist /\ rs[j].dist < rs[i].dist
                /\ i < j

\* The hits of one index.search call that pass `idx < len(data)`.
ValidHits(call, s) ==
    { r \in Positions(call.labels) : call.labels[r] < s.docs }

\* C6: a collection whose loading or searching raises does not make the call
\* raise: it is skipped (it adds no result), every other discovered
\* collection is still searched once, and all the hits of those are in the
\* sorted list the result is cut from.
C6_FailureSkipped ==
    /\ (pc = "raised" => failed = {} /\ query_emb = -1)
    /\ (Returned =>
          \A p \in Positions(indices) :
            LET n     == indices[p]
                calls == { c \in Positions(search_log) : search_log[c].name = n }
            IN  IF n \in failed
                THEN From(all_results, n) = {}
                ELSE /\ Cardinality(calls) = 1
                     /\ \A c \in calls :
                          Cardinality(From(all_results, n))
                            = Cardinality(ValidHits(search_log[c], fs[n])))

\* A call returned hits of a collection that comes after a failed one.
C6_Witness ==
    /\ pc = "done"
    /\ \E p, r \in Positions(indices) :
          /\ p < r
          /\ indices[p] \in failed
          /\ indices[r] \notin failed
          /\ From(results, indices[r]) # {}

\* The entries of rs that do not come from collection c, in order.
Others(rs, c) == SelectSeq(rs, LAMBDA x : x.source # c)

IsPrefix(a, b) == Len(a) <= Len(b) /\ a = SubSeq(b, 1, Len(a))

\* The ways a collection becomes unavailable: its index file is deleted, or
\* its files are corrupted so that loading raises.
Unavailable == { NoIndex, Stored(2, 2, FALSE) }

\* The result of the same call with collection c made unavailable as u.
Without(c, u) ==
    SearchAllIndices(variant, [fs EXCEPT ![c] = u], query, query_emb, base_k)

\* C7 (as claimed): the hits of the remaining collections are the same, in
\* number and order, with collection c available and with c unavailable
\* (a call over sound collections, and the same call without c).
C7_OthersUnaffected ==
    pc = "done" =>
        \A c \in Names : \A u \in Unavailable :
            fs[c].present => Others(results, c) = Without(c, u)

\* C7 (amended): the returned hits of the remaining collections with c
\* available are a prefix of (same order as) the hits returned with c
\* unavailable, and they are the same list when the hits found with c
\* available do not exceed the cap.
C7_OthersPrefix ==
    pc = "done" =>
        \A c \in Names : \A u \in Unavailable :
            fs[c].present =>
                /\ IsPrefix(Others(results, c), Without(c, u))
                /\ Len(all_results) <= overall_result_cap(variant)
                   => Others(results, c) = Without(c, u)

\* A call cut at the cap returned hits both of a collection c and of another
\* one, and without c more hits of the other one are returned.
C7_Witness ==
    /\ pc = "done"
    /\ Len(all_results) > overall_result_cap(variant)
    /\ \E c \in Names :
          /\ From(results, c) # {}
          /\ Others(results, c) # << >>
          /\ Len(Without(c, NoIndex)) > Len(Others(results, c))

\* C8: every call makes exactly one embedding call, before any collection is
\* searched, and every index.search call gets that same vector, whatever the
\* number of collections and whichever of them fail.
C8_EmbedOnce ==
    /\ embed_calls = (IF pc = "start" THEN 0 ELSE 1)
    /\ (pc = "start" => search_log = << >>)
    /\ \A c \in Positions(search_log) : search_log[c].vec = query_emb

\* A call searched two collections, one of which failed.
C8_Witness ==
    /\ pc = "done"
    /\ Len(search_log) >= 2
    /\ failed # {}

\* C9 (as claimed): a collection whose index holds a different number of
\* vectors than its document list has entries contributes no result.
C9_MisalignedSkipped ==
    Returned =>
        \A n \in Names :
            (fs[n].present /\ fs[n].loadable /\ Len(fs[n].vecs) # fs[n].docs)
            => From(results, n) = {}

\* The document texts of a context, each with the source named by the header
\* it stands under ("" when no header precedes it), in order.
RECURSIVE UnderHeaders(_, _, _)
UnderHeaders(ctx, i, src) ==
    IF i > Len(ctx) THEN << >>
    ELSE IF ctx[i].kind = "header"
         THEN UnderHeaders(ctx, i + 1, ctx[i].source)
         ELSE << [text |-> ctx[i].text, source |-> src] >>
              \o UnderHeaders(ctx, i + 1, src)

HeaderParts(ctx) == { i \in Positions(ctx) : ctx[i].kind = "header" }

\* C10: format_context emits every result exactly once: as many document
\* texts as results, every result as often in the context as in the input,
\* each under the one header of its own source collection.
C10_EveryResultOnce ==
    pc = "formatted" =>
        LET emitted == UnderHeaders(context, 1, "")
            given   == [r \in Positions(results) |->
                          [text |-> results[r].text, source |-> results[r].source]]
        IN  /\ Len(emitted) = Len(results)
            /\ \A h, g \in HeaderParts(context) :
                  context[h].source = context[g].source => h = g
            /\ \A i \in Positions(emitted) :
                  emitted[i].source = emitted[i].text.coll
            /\ \A x \in { given[r] : r \in Positions(given) } :
                  Occurrences(emitted, x) = Occurrences(given, x)

\* A context was built from results of a collection with a section of its
\* own and of a collection without one, with a repeated text among them.
C10_Witness ==
    /\ pc = "formatted"
    /\ \E i, j \in Positions(results) :
          /\ IsFixedSource(variant, results[i].source)
          /\ ~ IsFixedSource(variant, results[j].source)
    /\ \E i, j \in Positions(results) : i # j /\ results[i].text = results[j].text

\* The sources named by the headers of a context, in the order they appear.
HeaderSeq(ctx) ==
    LET hs == SelectSeq(ctx, LAMBDA p : p.kind = "header")
    IN  [i \in 1 .. Len(hs) |-> hs[i].source]

SourceSet(rs) == { rs[i].source : i \in Positions(rs) }

\* Position of src among the sources with a section of their own.
FixedRank(v, src) ==
    CHOOSE i \in 1 .. Len(FixedSources(v)) : FixedSources(v)[i] = src

\* Rank of the best result of src in rs.
FirstPos(rs, src) ==
    CHOOSE i \in From(rs, src) : \A j \in From(rs, src) : i <= j

\* C11 (as claimed): the order of the group headers is fixed by the set of
\* source collections alone: any two ranked lists with the same set of
\* sources give the same sequence of headers, whatever the ranks.
C11_GroupOrderFixed ==
    pc = "formatted" =>
        \A srcs \in RankedSources :
            LET other == RankedList(srcs)
            IN  SourceSet(other) = SourceSet(results)
                    => HeaderSeq(format_context(variant, other)) = HeaderSeq(context)

\* C11 (amended): the headers of the sources with a section of their own
\* appear in the fixed order of the code and before every other header,
\* whatever the ranks; the other headers follow in the order of the best
\* result of each source.
C11_TierOrderFixed ==
    pc = "formatted" =>
        LET hs == HeaderSeq(context)
        IN  /\ { hs[i] : i \in 1 .. Len(hs) } = SourceSet(results)
            /\ \A i, j \in 1 .. Len(hs) : i < j =>
                  LET a == hs[i]
                      b == hs[j]
                  IN  /\ IsFixedSource(variant, b) => IsFixedSource(variant, a)
                      /\ IsFixedSource(variant, b) =>
                             FixedRank(variant, a) < FixedRank(variant, b)
                      /\ ~ IsFixedSource(variant, a) =>
                             FirstPos(results, a) < FirstPos(results, b)

\* A context was built from a list whose best result has no section of its
\* own and whose two other results are ranked against the fixed order.
C11_Witness ==
    /\ pc = "formatted"
    /\ Len(results) = 3
    /\ ~ IsFixedSource(variant, results[1].source)
    /\ IsFixedSource(variant, results[2].source)
    /\ IsFixedSource(variant, results[3].source)
    /\ FixedRank(variant, results[3].source) < FixedRank(variant, results[2].source)

\* The level of a collection in the claimed order: insight, summary, record
\* (0 for a collection the order does not name).
ClaimedLevel(src) ==
    CASE src \in {"insights_distribuicao", "insights_despesas"} -> 1
      [] src = "sumarizacoes" -> 2
      [] src \in {"deputados", "despesas", "proposicoes"} -> 3
      [] OTHER -> 0

\* The level of a collection in the order each implementation emits.
EmittedLevel(v, src) ==
    IF v = "app" THEN ClaimedLevel(src)
    ELSE CASE src = "sumarizacoes" -> 1
           [] src = "proposicoes"  -> 2
           [] src \in {"insights_distribuicao", "insights_despesas"} -> 3
           [] src \in {"deputados", "despesas"} -> 4
           [] OTHER -> 0

\* C12 (as claimed): in both implementations every insight group comes
\* before every summary group and every summary group before every record
\* group.
C12_InsightSummaryRecord ==
    pc = "formatted" =>
        LET hs == HeaderSeq(context)
        IN  \A i, j \in 1 .. Len(hs) :
               (i < j /\ ClaimedLevel(hs[i]) > 0 /\ ClaimedLevel(hs[j]) > 0)
                   => ClaimedLevel(hs[i]) <= ClaimedLevel(hs[j])

\* C12 (amended): src/app.py emits insight groups, then the summary group,
\* then record groups; the pages implementation emits the summary group,
\* then proposicoes, then the insight groups, then the other record groups.
C12_LevelOrderPerVariant ==
    pc = "formatted" =>
        LET hs == HeaderSeq(context)
        IN  \A i, j \in 1 .. Len(hs) :
               (i < j /\ EmittedLevel(variant, hs[i]) > 0
                      /\ EmittedLevel(variant, hs[j]) > 0)
                   => EmittedLevel(variant, hs[i]) <= EmittedLevel(variant, hs[j])

\* The pages implementation built a context from a record, a summary and an
\* insight result, ranked in that order.
C12_Witness ==
    /\ pc = "formatted"
    /\ variant = "pages"
    /\ Len(results) = 3
    /\ results[1].source = "deputados"
    /\ results[2].source = "insights_despesas"
    /\ results[3].source = "sumarizacoes"

\* ----------------------------------------------------------- Self-Ask
Decomposed == phase = "DECOMPOSED" /\ next_sub = 1

QuestionsOf(sqs) == [i \in 1 .. Len(sqs) |-> sqs[i].question]

MatchingKeys(i, q) ==
    { j \in 1 .. Len(CatalogKeys(i)) : KeyMatches(CatalogKeys(i)[j], q) }

\* The sub-questions the catalog lists under a key.
FixedList(i, key) ==
    IF i = "app"
    THEN CASE key = K_PARTIDO ->
                << "Quais são todos os partidos representados?",
                   "Qual é o número de deputados por partido?" >>
           [] key = K_DESPESA ->
                << "Quais são os tipos de despesas registrados?",
                   "Qual é o valor total por tipo de despesa?" >>
           [] key = K_PROPOSICAO ->
                << "Quais são as proposições relacionadas ao tema?",
                   "Quais são os principais pontos dessas proposições?" >>
    ELSE CASE key = K_PARTIDO ->
                << "Quais são todos os partidos representados?",
                   "Quantos deputados cada partido tem?",
                   "Qual partido tem mais representantes?" >>
           [] key = K_DESPESAS ->
                << "Quais são os tipos de despesas registrados?",
                   "Qual o valor total por deputado?",
                   "Quais são as despesas mais comuns?" >>
           [] key = K_PROPOSICOES ->
                << "Qual o tema da proposição?",
                   "Quais são as palavras-chave relevantes?",
                   "Existem proposições similares?" >>

\* C13 (as claimed): a question that contains a cataloged keyword K is
\* decomposed into exactly K's list of sub-questions, in order.
C13_KeywordList ==
    Decomposed =>
        \A j \in MatchingKeys(impl, question) :
            QuestionsOf(sub_questions) = FixedList(impl, CatalogKeys(impl)[j])

\* C13 (amended): a question that contains cataloged keywords is decomposed
\* into exactly the list of the first of them in catalog order, unanswered
\* and in order.
C13_FirstKeywordList ==
    Decomposed =>
        \A j \in MatchingKeys(impl, question) :
            (\A l \in MatchingKeys(impl, question) : j <= l) =>
                /\ QuestionsOf(sub_questions) = FixedList(impl, CatalogKeys(impl)[j])
                /\ \A n \in 1 .. Len(sub_questions) :
                      /\ sub_questions[n].answer = None
                      /\ sub_questions[n].confidence = Frac(0, 1)

\* A question in capitals that contains two cataloged keywords has been
\* decomposed.
C13_Witness ==
    /\ Decomposed
    /\ question = Q_DESPESAS_PARTIDO
    /\ Cardinality(MatchingKeys(impl, question)) = 2

\* C14 (as claimed): a question without cataloged keyword is decomposed, by
\* both implementations, into the two generic sub-questions.
C14_GenericTwo ==
    (Decomposed /\ MatchingKeys(impl, question) = {}) =>
        QuestionsOf(sub_questions) =
            << "Qual é o contexto geral da pergunta?",
               "Quais dados são relevantes para esta pergunta?" >>

\* C14 (amended): a question without cataloged keyword is decomposed by
\* src/app/utils/self_ask.py into the two generic sub-questions and by
\* src/utils/self_ask.py into the single request to be more specific.
C14_GenericPerImplementation ==
    (Decomposed /\ MatchingKeys(impl, question) = {}) =>
        QuestionsOf(sub_questions) =
            IF impl = "app"
            THEN << "Qual é o contexto geral da pergunta?",
                    "Quais dados são relevantes para esta pergunta?" >>
            ELSE << "Poderia especificar melhor sua pergunta?" >>

\* src/utils/self_ask.py has decomposed a question that holds the beginning
\* of a cataloged keyword but not the keyword.
C14_Witness ==
    /\ Decomposed
    /\ impl = "utils"
    /\ question = Q_DESPESA
    /\ MatchingKeys(impl, question) = {}

Answered(sq) == sq.answered

\* C15: an answered sub-question with non-empty evidence has confidence
\* 1 / (1 + s), s the lowest score among its results.
C15_ConfidenceFormula ==
    \A n \in 1 .. Len(sub_questions) :
        (Answered(sub_questions[n]) /\ Len(sub_questions[n].evidence) > 0) =>
            FracEq(sub_questions[n].confidence,
                   Frac(2, 2 + MinScore2(sub_questions[n].evidence)))

\* C16: the confidence of every sub-question lies in [0, 1].
C16_ConfidenceInUnitInterval ==
    \A n \in 1 .. Len(sub_questions) :
        /\ ~ FracLess(sub_questions[n].confidence, Frac(0, 1))
        /\ ~ FracLess(Frac(1, 1), sub_questions[n].confidence)

Combined == impl = "app" /\ phase \in {"COMBINED", "SHOWN"}

\* The answers of the sub-questions that satisfy a condition, joined in
\* generation order; the fixed message when none does.
JoinedAnswers(sqs, Qualifies(_)) ==
    LET chosen == SelectSeq(sqs, Qualifies)
    IN  IF Len(chosen) = 0 THEN Insufficient
        ELSE Join([n \in 1 .. Len(chosen) |-> chosen[n].answer.text], << " " >>)

\* C17 (as claimed): _combine_answers returns the answers of exactly the
\* sub-questions whose confidence exceeds 0.5, joined in generation order,
\* and the fixed message when there is none.
C17_AboveThreshold ==
    Combined =>
        final_answer =
            JoinedAnswers(sub_questions,
                          LAMBDA sq : 2 * sq.confidence.num > sq.confidence.den)

\* C17 (amended): _combine_answers returns the answers of exactly the
\* sub-questions whose answer is a non-empty string and whose confidence
\* exceeds 0.5 (exactly 0.5 does not qualify), joined in generation order,
\* and the fixed message when there is none.
C17_NonEmptyAboveThreshold ==
    Combined =>
        final_answer =
            JoinedAnswers(sub_questions,
                          LAMBDA sq : /\ Len(sq.answer.text) > 0
                                      /\ 2 * sq.confidence.num > sq.confidence.den)

\* Answers were combined of which one qualifies and one has confidence
\* exactly 0.5.
C17_Witness ==
    /\ Combined
    /\ \E n \in 1 .. Len(sub_questions) :
          /\ FracEq(sub_questions[n].confidence, Threshold)
          /\ Len(sub_questions[n].answer.text) > 0
    /\ \E n \in 1 .. Len(sub_questions) :
          /\ FracLess(Threshold, sub_questions[n].confidence)
          /\ Len(sub_questions[n].answer.text) > 0

\* C18: a search that raises for one sub-question does not end the call:
\* answer_question / responder always gets to return a final answer.
C18_RetrievalFailureNotFatal ==
    phase \notin {"RAISED", "ERROR_SHOWN"}

\* C19: an exception of the embedding step or of the answer generator does
\* not leave the chat handler: main ends normally with a message on the page.
C19_HandlerShowsFallback ==
    /\ pc \notin {"raised", "crashed"}
    /\ pc = "answered" => Len(shown) > 0

\* C20: the list search_all_indices returns is a function of the query, the
\* query vector, the stored collections and the priority weights alone: the
\* collections are visited in the same order and the results come in the
\* same order, equal scores included, in whatever order the index files are
\* listed.
C20_Deterministic ==
    /\ pc = "loop" => indices = get_available_indices(fs)
    /\ pc = "done" =>
          results = SearchAllIndices(variant, fs, query, query_emb, base_k)

\* A call returned results of two collections with equal adjusted scores.
C20_Witness ==
    /\ pc = "done"
    /\ \E i, j \in Positions(results) :
          /\ i < j
          /\ results[i].score = results[j].score
          /\ results[i].source # results[j].source

\* The phases a call may pass to from each phase.
PhaseAfter(ph) ==
    CASE ph = "NEW"        -> {"DECOMPOSED"}
      [] ph = "DECOMPOSED" -> {"COMBINED", "RAISED"}
      [] ph = "COMBINED"   -> {"SHOWN"}
      [] ph = "RAISED"     -> {"ERROR_SHOWN"}
      [] OTHER             -> {"NEW"}

AnsweredAt(sqs, i) == sqs[i].answered

\* C21: one answer_question / responder call goes NEW, DECOMPOSED, one
\* answer per sub-question, COMBINED: the question is decomposed once and
\* before any answer, the sub-questions are answered once each in the order
\* they were generated, and the answers are combined only when every
\* sub-question has its answer.
C21_CallOrder ==
    [][ /\ phase' # phase => phase' \in PhaseAfter(phase)
        /\ phase' = "DECOMPOSED" /\ phase = "NEW" =>
              \A i \in DOMAIN sub_questions' : ~ AnsweredAt(sub_questions', i)
        /\ phase = "DECOMPOSED" =>
              /\ QuestionsOf(sub_questions') = QuestionsOf(sub_questions)
              /\ \A i \in DOMAIN sub_questions :
                    /\ AnsweredAt(sub_questions, i)
                          => sub_questions'[i] = sub_questions[i]
                    /\ (~ AnsweredAt(sub_questions, i)
                          /\ AnsweredAt(sub_questions', i))
                          => /\ \A j \in 1 .. i - 1 :
                                    AnsweredAt(sub_questions, j)
                             /\ \A j \in DOMAIN sub_questions :
                                    j # i => sub_questions'[j] = sub_questions[j]
        /\ phase' = "COMBINED" /\ phase = "DECOMPOSED" =>
              \A i \in DOMAIN sub_questions : AnsweredAt(sub_questions, i)
      ]_vars

\* A call over three sub-questions has combined their answers.
C21_Witness ==
    /\ phase = "COMBINED"
    /\ Len(sub_questions) = 3
    /\ \A i \in DOMAIN sub_questions : AnsweredAt(sub_questions, i)
    /\ Len(final_answer) > 0

\* The neighbour count index_k computed for the collection of a logged call.
ComputedK(call) == IndexK(variant, k, IndexPriority2(variant, call.name))

\* C22: the neighbour count search_all_indices hands to index.search never
\* exceeds the number of documents stored for the collection searched.
C22_CountWithinStored ==
    \A i \in Positions(search_log) :
        LET call == search_log[i]
        IN  call.k.num <= fs[call.name].docs * call.k.den

\* C23: of two collections searched by one call the more important one
\* (the smaller priority value) has the greater computed neighbour count.
C23_ImportantGetsMore ==
    \A i, j \in Positions(search_log) :
        LET a == search_log[i]
            b == search_log[j]
        IN  MoreImportant(variant, a.name, b.name)
            => ComputedK(a).num * ComputedK(b).den
                  > ComputedK(b).num * ComputedK(a).den

\* C25: every result comes from a hit whose label is a slot of the stored
\* documents, 0 <= idx < len(data), and carries the document of that slot;
\* the padding label -1 adds no result.
C25_ResultsFromValidSlots ==
    \A i \in Positions(all_results) :
        LET r == all_results[i]
        IN  /\ 0 <= r.idx
            /\ r.idx < fs[r.source].docs
            /\ r.text = Doc(r.source, r.idx)

\* C26: the neighbour count handed to index.search is a whole number that
\* is at least 1.
C26_CountWholeAndPositive ==
    \A i \in Positions(search_log) :
        LET sk == search_log[i].k
        IN  /\ sk.num % sk.den = 0
            /\ sk.num >= sk.den

\* C27: over any sequence of answer_question calls on one assistant, the
\* sub-questions made for a question start with no answer and confidence 0,
\* whatever the calls before left behind, the same catalog keyword
\* included, and the combined answer of the call is built from the answers
\* of its own sub-questions alone.
C27_FreshPerCall ==
    /\ Decomposed =>
          \A i \in DOMAIN sub_questions :
              /\ sub_questions[i].answer = None
              /\ FracEq(sub_questions[i].confidence, Frac(0, 1))
              /\ sub_questions[i].evidence = << >>
              /\ ~ sub_questions[i].answered
    /\ (phase = "COMBINED" /\ impl = "app") =>
          final_answer = CombineAnswers(sub_questions)

\* A later call has decomposed a question into the very sub-questions the
\* call before it had answered.
C27_Witness ==
    /\ Decomposed
    /\ earlier.touched
    /\ earlier.questions = QuestionsOf(sub_questions)

\* The hits of a sub-question's search whose slot has an entry in
\* text_mapping under its string form.
MappedHits(sq) ==
    { r \in DOMAIN sq.hits : StrKey(sq.hits[r].idx) \in DOMAIN manager.text_mapping }

\* C28: EmbeddingManager.search returns one {text, score} for every hit
\* whose slot has an entry in text_mapping, so a sub-question whose search
\* hits indexed documents has non-empty evidence when it is answered.
C28_MappedHitsReturned ==
    manager.kind = "indexed" =>
        \A i \in DOMAIN sub_questions :
            sub_questions[i].answered =>
                /\ Len(sub_questions[i].evidence)
                      = Cardinality(MappedHits(sub_questions[i]))
                /\ MappedHits(sub_questions[i]) # {}
                      => Len(sub_questions[i].evidence) > 0

\* The sections of the prompt that list a document.
SectionsListing(doc) ==
    { i \in DOMAIN prompt : \E j \in DOMAIN prompt[i].docs : prompt[i].docs[j] = doc }

\* C24: generate_prompt puts every retrieved document under exactly one of
\* the sections Deputados, Proposições, Despesas, whatever its text is.
C24_OneSectionPerDocument ==
    rag_pc = "prompted" =>
        \A r \in DOMAIN retrieved :
            Cardinality(SectionsListing(retrieved[r])) = 1

\* The sum of the rows of the three frames.
TotalRows == frames["deputados"] + frames["proposicoes"] + frames["despesas"]

\* C29: retrieve returns, for every slot the search hits, the document that
\* was indexed at that slot (deputados first, then proposições, then
\* despesas, each at its offset); a valid slot never yields a document of
\* another row or makes the call fail.
C29_SlotToDocument ==
    ( /\ rag_pc = "retrieved"
      /\ \A r \in DOMAIN labels : 0 <= labels[r] /\ labels[r] < Len(index_file) )
    => /\ Len(retrieved) = Len(labels)
       /\ \A r \in DOMAIN retrieved :
             LET origin == index_file[labels[r] + 1]
             IN  retrieved[r] = DocOf(origin.frame, origin.row)

\* C30: after any number of RAGManager constructions against one index
\* file the index holds one vector per row of the three frames.
C30_OneVectorPerRow ==
    (built >= 1 /\ rag_pc # "failed") => Len(index_file) = TotalRows

====
